---- MODULE Spec2Model ----
(***************************************************************************)
(* populate_req.py: update_requirements_file pins the unversioned lines of *)
(* a requirements file to the installed version of the package, or to the *)
(* latest version on PyPI when the package is not installed.               *)
(*                                                                         *)
(* Text is a sequence of one-character strings.  The file on disk is one   *)
(* such sequence, "\n" included, as text mode presents it.                 *)
(***************************************************************************)
EXTENDS Integers, Sequences, FiniteSets, TLC

\* ------------------------------------------------------------------ bounds
\* Largest number of lines of the requirements file at the start.
MaxLines == 2

\* ------------------------------------------------------------- characters
NL == "\n"
SP == " "
Letter == {"a", "b", "e", "r", "t", "x"}
Digit == {"1", "2"}
Alnum == Letter \cup Digit
IdChar == Alnum \cup {"-", "_", "."}
\* str.strip() and the parser's WS token agree on the blanks used here.
WS == {SP}
None == <<>>

\* ------------------------------------------------------------ text helpers
RECURSIVE Span(_, _, _)
\* First position >= p of s that holds no character of set.
Span(s, p, set) ==
    IF p <= Len(s) /\ s[p] \in set THEN Span(s, p + 1, set) ELSE p

RECURSIVE BackSpan(_, _, _)
\* Last position <= p of s that holds no character of set (0 when none).
BackSpan(s, p, set) ==
    IF p >= 1 /\ s[p] \in set THEN BackSpan(s, p - 1, set) ELSE p

At(s, p) == IF p >= 1 /\ p <= Len(s) THEN s[p] ELSE "EOF"

Slice(s, p, q) == IF q <= p THEN <<>> ELSE SubSeq(s, p, q - 1)

\* str.strip()
strip(s) ==
    LET p == Span(s, 1, WS)
        q == BackSpan(s, Len(s), WS)
    IN  IF p > Len(s) THEN <<>> ELSE SubSeq(s, p, q)

\* str.startswith(c) for a one-character prefix
startswith(s, c) == Len(s) >= 1 /\ s[1] = c

RECURSIVE join(_, _)
\* sep.join(parts)
join(sep, parts) ==
    IF parts = <<>> THEN <<>>
    ELSE IF Len(parts) = 1 THEN parts[1]
    ELSE parts[1] \o sep \o join(sep, Tail(parts))

\* The element of a set of one element: Only({F(v) : v \in {e}}) is F(e), with e
\* evaluated once.
Only(S) == CHOOSE v \in S : TRUE

RECURSIVE FindNL(_, _)
\* Position of the first "\n" of text at or after p (Len(text) + 1 when none).
FindNL(text, p) ==
    IF p <= Len(text) /\ text[p] # NL THEN FindNL(text, p + 1) ELSE p

RECURSIVE readlines(_)
\* The lines "for line in file" yields, terminator included: a line ends with
\* each "\n"; text after the last "\n" is a last line without terminator.
readlines(text) ==
    IF text = <<>> THEN <<>>
    ELSE Only({ IF q > Len(text) THEN <<text>>
                ELSE Only({ <<SubSeq(text, 1, q)>> \o readlines(rest)
                            : rest \in {Slice(text, q + 1, Len(text) + 1)} })
                : q \in {FindNL(text, 1)} })

\* The line taken as read, its terminator kept.
rstripNothing(line) == line

\* line.rstrip('\n')
rstripNL(line) == Slice(line, 1, BackSpan(line, Len(line), {NL}) + 1)

\* ------------------------------------------ packaging.requirements.Requirement
\* The result of Requirement(line): ok is FALSE when InvalidRequirement is
\* raised.  extras holds the extras in the order written; marker holds
\* str(req.marker), None when there is no marker; specifier holds the text of
\* the version constraints, empty when there is none; url likewise.
NoReq == [ok |-> FALSE, name |-> None, extras |-> <<>>, specifier |-> None,
          marker |-> None, url |-> None]

\* A token that is not there.
NoToken == [ok |-> FALSE, text |-> None, next |-> 0]

\* Characters a URL or a quoted string can hold besides letters and digits.
Punct == {"=", ">", "[", "]", ",", ";", "@", "#", ":", "/"}

\* IDENTIFIER at p: [ok, text, next].  It starts and ends with a letter or digit.
Identifier(s, p) ==
    IF At(s, p) \notin Alnum THEN NoToken
    ELSE Only({ [ok |-> TRUE, text |-> Slice(s, p, r), next |-> r]
                : r \in {BackSpan(s, Span(s, p, IdChar) - 1, IdChar \ Alnum) + 1} })

RECURSIVE ExtrasList(_, _, _)
\* Identifiers separated by commas, from p, after acc: [ok, text, next], text
\* the list of them.
ExtrasList(s, p, acc) ==
    Only({ IF ~id.ok THEN NoToken
           ELSE Only({ IF At(s, c) = ","
                       THEN Only({ ExtrasList(s, n, Append(acc, id.text))
                                   : n \in {Span(s, c + 1, WS)} })
                       ELSE [ok |-> TRUE, text |-> Append(acc, id.text), next |-> id.next]
                       : c \in {Span(s, id.next, WS)} })
           : id \in {Identifier(s, p)} })

\* The "]" that closes the list of extras l.
ExtrasClose(s, l) ==
    Only({ IF l.ok /\ At(s, e) = "]"
           THEN [ok |-> TRUE, text |-> l.text, next |-> e + 1]
           ELSE NoToken
           : e \in {Span(s, l.next, WS)} })

\* The optional "[extra, ...]" at p: [ok, text, next], text the list of extras.
Extras(s, p) ==
    IF At(s, p) # "[" THEN [ok |-> TRUE, text |-> <<>>, next |-> p]
    ELSE Only({ ExtrasClose(s, IF At(s, q) \in Alnum THEN ExtrasList(s, q, <<>>)
                               ELSE [ok |-> TRUE, text |-> <<>>, next |-> q])
                : q \in {Span(s, p + 1, WS)} })

\* One SPECIFIER token at p: an operator, blanks, a version of digits and dots.
\* [ok, text, next].
SpecifierToken(s, p) ==
    IF ~(At(s, p) \in {"=", ">"} /\ At(s, p + 1) = "=") THEN NoToken
    ELSE Only({ IF At(s, v) \notin Digit THEN NoToken
                ELSE Only({ [ok |-> TRUE, text |-> Slice(s, p, r), next |-> r]
                            : r \in {BackSpan(s, Span(s, v, Digit \cup {"."}) - 1, {"."}) + 1} })
                : v \in {Span(s, p + 2, WS)} })

RECURSIVE VersionMany(_, _)
\* SPECIFIER tokens separated by commas, possibly none: the position after them.
VersionMany(s, p) ==
    Only({ IF ~t.ok THEN p
           ELSE Only({ IF At(s, c) = ","
                       THEN Only({ VersionMany(s, n) : n \in {Span(s, c + 1, WS)} })
                       ELSE c
                       : c \in {Span(s, t.next, WS)} })
           : t \in {SpecifierToken(s, p)} })

\* A quoted string at p: [ok, text, next].
Quoted(s, p) ==
    IF At(s, p) \notin {"'", "\""} THEN NoToken
    ELSE Only({ IF At(s, q) = At(s, p)
                THEN [ok |-> TRUE, text |-> Slice(s, p + 1, q), next |-> q + 1]
                ELSE NoToken
                : q \in {Span(s, p + 1, (IdChar \cup WS \cup Punct \cup {"'", "\""}) \ {At(s, p)})} })

\* The marker variable this model knows.
MarkerVariable == <<"e", "x", "t", "r", "a">>

\* str(Marker): variable, operator and double-quoted value, one blank between.
MarkerStr(var, op, val) == var \o <<SP>> \o op \o <<SP, "\"">> \o val \o <<"\"">>

\* The operator at b and the quoted value after it, the variable id read.
MarkerAfterVariable(s, id, b) ==
    IF ~(id.ok /\ id.text = MarkerVariable /\ At(s, b) \in {"=", ">"} /\ At(s, b + 1) = "=")
    THEN NoToken
    ELSE Only({ IF ~val.ok THEN NoToken
                ELSE [ok |-> TRUE, text |-> MarkerStr(id.text, <<s[b], s[b + 1]>>, val.text),
                      next |-> Span(s, val.next, WS)]
                : val \in {Quoted(s, Span(s, b + 2, WS))} })

\* A marker of one comparison "variable op 'value'" from p (after the ";"):
\* [ok, text, next], text being str(marker).
Marker(s, p) ==
    Only({ Only({ MarkerAfterVariable(s, id, b) : b \in {Span(s, id.next, WS)} })
           : id \in {Identifier(s, Span(s, p, WS))} })

\* ";" marker, then the end of the line, from p.
MarkerToEnd(s, p) ==
    IF At(s, p) # ";" THEN NoToken
    ELSE Only({ IF m.ok /\ m.next > Len(s) THEN m ELSE NoToken
                : m \in {Marker(s, p + 1)} })

\* The requirement with a URL from u to uEnd, then the end of the line, or
\* blanks up to uWs and a marker.
UrlRequirement(s, base, u, uEnd, uWs) ==
    IF uEnd = u THEN NoReq
    ELSE IF uEnd > Len(s) \/ (uWs > uEnd /\ uWs > Len(s))
    THEN [base EXCEPT !.url = Slice(s, u, uEnd)]
    ELSE IF uWs = uEnd THEN NoReq
    ELSE Only({ IF m.ok THEN [base EXCEPT !.url = Slice(s, u, uEnd), !.marker = m.text]
                ELSE NoReq
                : m \in {MarkerToEnd(s, uWs)} })

\* The requirement with version constraints from d to vEnd, possibly none, then
\* the end of the line or a marker.
VersionRequirement(s, base, d, vEnd, vWs) ==
    IF vWs > Len(s) THEN [base EXCEPT !.specifier = Slice(s, d, vEnd)]
    ELSE Only({ IF m.ok THEN [base EXCEPT !.specifier = Slice(s, d, vEnd), !.marker = m.text]
                ELSE NoReq
                : m \in {MarkerToEnd(s, vWs)} })

\* What follows the name and the extras, from d.
RequirementDetails(s, base, d) ==
    IF At(s, d) = "@"
    THEN Only({ Only({ UrlRequirement(s, base, u, uEnd, Span(s, uEnd, WS))
                       : uEnd \in {Span(s, u, IdChar \cup Punct \cup {"'", "\""})} })
                : u \in {Span(s, d + 1, WS)} })
    ELSE Only({ VersionRequirement(s, base, d, vEnd, Span(s, vEnd, WS))
                : vEnd \in {VersionMany(s, d)} })

\* What follows the name n.
RequirementAfterName(s, n) ==
    Only({ IF ~x.ok THEN NoReq
           ELSE Only({ RequirementDetails(s,
                           [ok |-> TRUE, name |-> n.text, extras |-> x.text,
                            specifier |-> None, marker |-> None, url |-> None], d)
                       : d \in {Span(s, x.next, WS)} })
           : x \in {Extras(s, Span(s, n.next, WS))} })

\* Requirement(line)
Requirement(s) ==
    Only({ IF ~n.ok THEN NoReq ELSE RequirementAfterName(s, n)
           : n \in {Identifier(s, Span(s, 1, WS))} })

\* ------------------------------------------------------------ environment
\* Version strings the local registry and the remote index hold.
InstalledV == <<"1">>
LatestV == <<"2", ".", "1">>

\* What importlib.metadata.version(name) does: return a version, raise
\* PackageNotFoundError, raise another exception, or return None (metadata
\* without a Version field).
LocalOutcomes == {"version", "PackageNotFoundError", "Exception", "NoVersion"}

\* What requests.get(url) and response.json() do: 200 with info.version, 200
\* with a body that is not JSON, 200 with JSON that lacks info.version, a
\* status other than 200, or an exception raised by the transport.
RemoteOutcomes == {"200", "200-not-json", "200-no-field", "404", "ConnectionError"}

\* Lines a requirements file is made of here, one of each kind the code tells
\* apart (and blanks, extras, a marker in a spelling str(marker) changes).
Samples ==
    { <<>>,
      <<SP>>,
      <<SP, "#", "a">>,
      <<"a", SP, "b">>,
      <<"a", "@", "b">>,
      <<"b", ">", "=", "1">>,
      <<"a">>,
      <<SP, "a", "[", "x", ",", "t", "]">>,
      <<"a", ";", "e", "x", "t", "r", "a", "=", "=", "'", "t", "'">> }

SeqsUpTo(S, n) == UNION {[1..k -> S] : k \in 0..n}

\* Files of at most MaxLines lines, the last one with or without its "\n".
InitialFiles ==
    { join(<<NL>>, ls) \o tl : ls \in SeqsUpTo(Samples, MaxLines), tl \in {<<>>, <<NL>>} }

\* ----------------------------------------------- the input, for the record
RECURSIVE TextLines(_)
\* The lines of a text, terminators left out: a line ends at each "\n", and
\* text after the last "\n" is a last line.
TextLines(text) ==
    IF text = <<>> THEN <<>>
    ELSE Only({ Only({ <<Slice(text, 1, q)>> \o TextLines(rest)
                       : rest \in {Slice(text, q + 1, Len(text) + 1)} })
                : q \in {FindNL(text, 1)} })

\* The kind of an input line, in the order the spec's classifier tells them,
\* st being the line stripped and r the line parsed.
KindOf(st, r) ==
    IF st = <<>> THEN "blank"
    ELSE IF startswith(st, "#") THEN "comment"
    ELSE IF ~r.ok THEN "unparseable"
    ELSE IF r.url # None THEN "url"
    ELSE IF r.specifier # None THEN "versioned"
    ELSE "bare"

\* A line with its kind and, when it is a requirement, its fields.
Describe(l) ==
    Only({ [line |-> l, kind |-> k,
            req |-> IF k \in {"url", "versioned", "bare"} THEN Requirement(l) ELSE NoReq]
           : k \in {KindOf(strip(l), Requirement(l))} })

\* The lines of a text, each as Describe gives it.
Described(text) ==
    Only({ [k \in DOMAIN ls |-> Describe(ls[k])] : ls \in {TextLines(text)} })

\* ------------------------------------------------------------------ state
VARIABLES
    file,           \* the text of requirements.txt on disk
    registry,       \* pairs <<name, outcome>> of the local lookup, fixed once observed
    pypi,           \* pairs <<name, outcome>> of the remote lookup, fixed once observed
    run,            \* 1 or 2: which invocation of update_requirements_file
    pc,             \* position in update_requirements_file
    lines,          \* the lines the read loop yields, terminators included
    i,              \* number of lines the loop has finished
    package_line,   \* the line being processed
    req,            \* Requirement(package_line) of the line being processed
    updated_lines,  \* the output lines accumulated
    log,            \* records logged in this run: <<level, what>>
    before,         \* history: the file text when this run started
    input,          \* history: the lines of before, as Described gives them
    fault,          \* history: what ended each run early or failed its write:
                    \* "read", "line", "open-w", "write"; "none" if nothing did
    firstResult,    \* history: the file text when the first run returned
    calls           \* history: the lookups of this run, in order:
                    \* <<kind, line number, name, outcome>>

vars == <<file, registry, pypi, run, pc, lines, i, package_line, req,
          updated_lines, log, before, input, fault, firstResult, calls>>

env == <<registry, pypi>>
hist == <<before, input, firstResult>>

Init ==
    /\ file \in InitialFiles
    /\ registry = {}
    /\ pypi = {}
    /\ run = 1
    /\ pc = "start"
    /\ lines = <<>>
    /\ i = 0
    /\ package_line = <<>>
    /\ req = NoReq
    /\ updated_lines = <<>>
    /\ log = <<>>
    /\ before = file
    /\ input = Described(file)
    /\ fault = <<"none", "none">>
    /\ firstResult = <<>>
    /\ calls = <<>>

\* ---------------------------------------------------------------- lookups
\* The outcomes the environment e can give for name: the one it gave before,
\* any outcome of all when name was never looked up.
Answers(e, name, all) ==
    IF \E a \in e : a[1] = name THEN {a[2] : a \in {b \in e : b[1] = name}} ELSE all

\* get_installed_version without the handler of lines 24-26: an exception
\* other than PackageNotFoundError leaves it.
get_installed_version_narrow(package_name, outcome) ==
    CASE outcome = "version" ->
            [ret |-> InstalledV, log |-> <<>>, exc |-> "none"]
      [] outcome = "Exception" ->
            [ret |-> None, log |-> <<>>, exc |-> "Exception"]
      [] OTHER ->
            [ret |-> None, log |-> <<>>, exc |-> "none"]

\* get_installed_version(package_name), the registry answering outcome:
\* the value returned, the records logged at the configured level (INFO, so the
\* debug record of line 22 is not emitted), the exception that leaves it.
get_installed_version(package_name, outcome) ==
    CASE outcome = "version" ->
            [ret |-> InstalledV, log |-> <<>>, exc |-> "none"]
      [] outcome = "PackageNotFoundError" ->
            [ret |-> None, log |-> <<>>, exc |-> "none"]
      [] outcome = "Exception" ->
            [ret |-> None, log |-> <<<<"error", "local lookup">>>>, exc |-> "none"]
      [] OTHER ->
            [ret |-> None, log |-> <<>>, exc |-> "none"]

\* get_latest_version_from_pypi reading data['version'] instead of
\* data['info']['version']: the KeyError is caught and None returned.
get_latest_version_wrong_field(package_name, outcome) ==
    CASE outcome = "404" ->
            [ret |-> None, log |-> <<<<"warning", "remote status">>>>, exc |-> "none"]
      [] OTHER ->
            [ret |-> None, log |-> <<<<"error", "remote lookup">>>>, exc |-> "none"]

\* get_latest_version_from_pypi catching only the exceptions of requests: a
\* missing field leaves it as a KeyError.
get_latest_version_uncaught_KeyError(package_name, outcome) ==
    CASE outcome = "200" ->
            [ret |-> LatestV, log |-> <<>>, exc |-> "none"]
      [] outcome = "404" ->
            [ret |-> None, log |-> <<<<"warning", "remote status">>>>, exc |-> "none"]
      [] outcome = "200-no-field" ->
            [ret |-> None, log |-> <<>>, exc |-> "KeyError"]
      [] OTHER ->
            [ret |-> None, log |-> <<<<"error", "remote lookup">>>>, exc |-> "none"]

\* get_latest_version_from_pypi(package_name), the index answering outcome.
get_latest_version_from_pypi(package_name, outcome) ==
    CASE outcome = "200" ->
            [ret |-> LatestV, log |-> <<>>, exc |-> "none"]
      [] outcome = "404" ->
            [ret |-> None, log |-> <<<<"warning", "remote status">>>>, exc |-> "none"]
      [] OTHER ->
            [ret |-> None, log |-> <<<<"error", "remote lookup">>>>, exc |-> "none"]

\* ------------------------------------------------- update_requirements_file
\* The orders in which iterating the set of extras can yield them.
Orders(xs) ==
    LET S == {xs[k] : k \in DOMAIN xs}
    IN  {f \in [1..Cardinality(S) -> S] : \A j, k \in DOMAIN f : j # k => f[j] # f[k]}

\* The line rebuilt without its extras.
ReconstructNoExtras(r, operator, version, order) ==
    r.name
      \o (IF operator # None /\ version # None THEN operator \o version ELSE <<>>)
      \o (IF r.marker # None THEN <<";", SP>> \o r.marker ELSE <<>>)

\* Lines 124-133: the line rebuilt from the parsed fields.
Reconstruct(r, operator, version, order) ==
    r.name
      \o (IF order # <<>> THEN <<"[">> \o join(<<",">>, order) \o <<"]">> ELSE <<>>)
      \o (IF operator # None /\ version # None THEN operator \o version ELSE <<>>)
      \o (IF r.marker # None THEN <<";", SP>> \o r.marker ELSE <<>>)

\* Line 70: the line is blank or a comment.
IsBlankOrComment(line) == strip(line) = <<>> \/ startswith(strip(line), "#")

\* Line 141: the text written.
Content(ls) == join(<<NL>>, ls) \o <<NL>>

\* The decision with the check of line 101 forgotten: an installed package is
\* pinned whatever the line says.
DecidePinVersioned(installed_version, specifier) ==
    IF installed_version # None THEN "pin"
    ELSE IF specifier = None THEN "remote" ELSE "keep"

\* The decision with the check of line 109 forgotten: a package that is not
\* installed is looked up on the index whatever the line says.
DecideRemoteVersioned(installed_version, specifier) ==
    IF installed_version # None
    THEN IF specifier = None THEN "pin" ELSE "keep"
    ELSE "remote"

\* Lines 100-122: what is done with a parsed line that has no URL, given the
\* installed version and the version constraints of the line.
Decide(installed_version, specifier) ==
    IF installed_version # None
    THEN IF specifier = None THEN "pin" ELSE "keep"
    ELSE IF specifier = None THEN "remote" ELSE "keep"

\* The handler of the read block without the return of line 136.
AbortNoReturn(cause) ==
    /\ pc' = "open-w"
    /\ log' = Append(log, <<"error", "processing">>)
    /\ fault' = [fault EXCEPT ![run] = cause]

\* Lines 134-136: an exception reaches the handler of the read block, from
\* reading (cause "read") or from the processing of a line (cause "line").
Abort(cause) ==
    /\ pc' = "done"
    /\ log' = Append(log, <<"error", "processing">>)
    /\ fault' = [fault EXCEPT ![run] = cause]

\* The loop moves on to the next line with out appended.
Emit(out) ==
    /\ updated_lines' = Append(updated_lines, out)
    /\ i' = i + 1
    /\ pc' = "loop"

\* Line 65: open(requirements_file, "r") succeeds.
OpenRead ==
    /\ pc = "start"
    /\ pc' = "loop"
    /\ lines' = readlines(file)
    /\ UNCHANGED <<file, env, run, i, package_line, req, updated_lines, log,
                   hist, fault, calls>>

\* Line 65: open(requirements_file, "r") raises.
OpenReadError ==
    /\ pc = "start"
    /\ Abort("read")
    /\ UNCHANGED <<file, env, run, lines, i, package_line, req, updated_lines,
                   hist, calls>>

\* Line 66: fetching the next line raises (an I/O or decoding error).
ReadError ==
    /\ pc = "loop"
    /\ Abort("read")
    /\ UNCHANGED <<file, env, run, lines, i, package_line, req, updated_lines,
                   hist, calls>>

\* Lines 66-90: the next line is read, and is settled when it is blank, a
\* comment, unparseable or a URL requirement.
NextLine ==
    /\ pc = "loop"
    /\ i < Len(lines)
    /\ \E l \in {rstripNL(lines[i + 1])} : \E r \in {Requirement(l)} :
           /\ package_line' = l
           /\ IF IsBlankOrComment(l)
              THEN Emit(l) /\ UNCHANGED <<req, log>>
              ELSE IF ~r.ok
              THEN Emit(l) /\ log' = Append(log, <<"warning", "parse">>)
                           /\ UNCHANGED req
              ELSE IF r.url # None
              THEN Emit(l) /\ UNCHANGED <<req, log>>
              ELSE /\ req' = r
                   /\ pc' = "local"
                   /\ UNCHANGED <<i, updated_lines, log>>
    /\ UNCHANGED <<file, env, run, lines, hist, fault, calls>>

\* Lines 95-107 and 119-122: the local lookup and what follows from it, up to
\* the remote lookup.  An exception leaving the lookup would reach line 134.
LocalLookup ==
    /\ pc = "local"
    /\ \E o \in Answers(registry, req.name, LocalOutcomes) :
         LET got == get_installed_version(req.name, o)
         IN  /\ registry' = registry \cup {<<req.name, o>>}
             /\ calls' = Append(calls, <<"local", i + 1, req.name, o>>)
             /\ IF got.exc # "none"
                THEN /\ Abort("line")
                     /\ UNCHANGED <<i, updated_lines>>
                ELSE /\ log' = log \o got.log
                     /\ UNCHANGED fault
                     /\ LET d == Decide(got.ret, req.specifier)
                        IN  CASE d = "pin" ->
                                   \E order \in Orders(req.extras) :
                                     Emit(Reconstruct(req, <<"=", "=">>, got.ret, order))
                              [] d = "remote" ->
                                   pc' = "remote" /\ UNCHANGED <<i, updated_lines>>
                              [] OTHER -> Emit(package_line)
    /\ UNCHANGED <<file, pypi, run, lines, package_line, req, hist>>

\* Lines 109-118: the remote lookup of an unversioned, uninstalled package.
RemoteLookup ==
    /\ pc = "remote"
    /\ \E o \in Answers(pypi, req.name, RemoteOutcomes) :
         LET got == get_latest_version_from_pypi(req.name, o)
         IN  /\ pypi' = pypi \cup {<<req.name, o>>}
             /\ calls' = Append(calls, <<"remote", i + 1, req.name, o>>)
             /\ IF got.exc # "none"
                THEN /\ Abort("line")
                     /\ UNCHANGED <<i, updated_lines>>
                ELSE /\ UNCHANGED fault
                     /\ IF got.ret # None
                        THEN /\ log' = log \o got.log
                             /\ \E order \in Orders(req.extras) :
                                  Emit(Reconstruct(req, <<"=", "=">>, got.ret, order))
                        ELSE /\ log' = (log \o got.log) \o <<<<"warning", "not on PyPI">>>>
                             /\ Emit(package_line)
    /\ UNCHANGED <<file, registry, run, lines, package_line, req, hist>>

\* The loop ends and the file is closed: the read block is left.
EndLoop ==
    /\ pc = "loop"
    /\ i = Len(lines)
    /\ pc' = "open-w"
    /\ UNCHANGED <<file, env, run, lines, i, package_line, req, updated_lines,
                   log, hist, fault, calls>>

\* The file opened with mode "a": nothing is truncated.
OpenAppend ==
    /\ pc = "open-w"
    /\ pc' = "writing"
    /\ UNCHANGED <<file, env, run, lines, i, package_line, req, updated_lines, log,
                   hist, fault, calls>>

\* Line 140: open(requirements_file, "w") truncates the file.
OpenWrite ==
    /\ pc = "open-w"
    /\ file' = <<>>
    /\ pc' = "writing"
    /\ UNCHANGED <<env, run, lines, i, package_line, req, updated_lines, log,
                   hist, fault, calls>>

\* Line 140: open(requirements_file, "w") raises; the file is as it was.
OpenWriteError ==
    /\ pc = "open-w"
    /\ pc' = "done"
    /\ log' = Append(log, <<"error", "writing">>)
    /\ fault' = [fault EXCEPT ![run] = "open-w"]
    /\ UNCHANGED <<file, env, run, lines, i, package_line, req, updated_lines,
                   hist, calls>>

\* Line 141: the text is written after what the file holds, and the file is
\* closed.
Write ==
    /\ pc = "writing"
    /\ file' = file \o Content(updated_lines)
    /\ pc' = "done"
    /\ UNCHANGED <<env, run, lines, i, package_line, req, updated_lines, log,
                   hist, fault, calls>>

\* Lines 141-143: writing or closing raises after any part of the text has
\* reached the file.
WriteError ==
    /\ pc = "writing"
    /\ \E n \in 0..Len(Content(updated_lines)) :
         file' = file \o SubSeq(Content(updated_lines), 1, n)
    /\ pc' = "done"
    /\ log' = Append(log, <<"error", "writing">>)
    /\ fault' = [fault EXCEPT ![run] = "write"]
    /\ UNCHANGED <<env, run, lines, i, package_line, req, updated_lines,
                   hist, calls>>

\* The tool is run a second time, the registry and the index as they were.
RunAgain ==
    /\ pc = "done"
    /\ run = 1
    /\ fault[1] = "none"
    /\ run' = 2
    /\ pc' = "start"
    /\ firstResult' = file
    /\ before' = file
    /\ input' = Described(file)
    /\ lines' = <<>>
    /\ i' = 0
    /\ package_line' = <<>>
    /\ req' = NoReq
    /\ updated_lines' = <<>>
    /\ log' = <<>>
    /\ calls' = <<>>
    /\ UNCHANGED <<file, env, fault>>

Next ==
    \/ OpenRead
    \/ OpenReadError
    \/ ReadError
    \/ NextLine
    \/ LocalLookup
    \/ RemoteLookup
    \/ EndLoop
    \/ OpenWrite
    \/ OpenWriteError
    \/ Write
    \/ WriteError
    \/ RunAgain

Spec == Init /\ [][Next]_vars

\* ================================================================ properties
\* The input lines of this run, and the lines the file holds now.
In == [k \in DOMAIN input |-> input[k].line]
FileLines == TextLines(file)

\* The run returned after writing the file without error.
Written == pc = "done" /\ fault[run] = "none"

\* Output line k is out: in the output sequence, and in the file once written.
OutputIs(k, out) ==
    /\ updated_lines[k] = out
    /\ Written => k <= Len(FileLines) /\ FileLines[k] = out

\* name, "[extras]" in some order when there are extras, "==" version,
\* "; marker" when there is a marker.
Pinned(r, version) ==
    { r.name
        \o (IF r.extras # <<>> THEN <<"[">> \o join(<<",">>, order) \o <<"]">> ELSE <<>>)
        \o <<"=", "=">> \o version
        \o (IF r.marker # None THEN <<";", SP>> \o r.marker ELSE <<>>)
      : order \in Orders(r.extras) }

Installed(name) == <<name, "version">> \in registry
NotInstalled(name) == \E a \in registry : a[1] = name /\ a[2] # "version"
RemoteFailures == RemoteOutcomes \ {"200"}

\* C1: a pass-through input line (blank, whitespace-only, comment, unparseable,
\* URL-based, or already versioned, installed or not) comes out at the same
\* position character for character.
C1_PassThroughIdentical ==
    \A k \in 1..Len(updated_lines) :
        input[k].kind # "bare" => OutputIs(k, In[k])

\* C1 witness: a written file that kept a versioned line of an installed
\* package and a whitespace-only line.
C1_Witness ==
    /\ Written
    /\ \E k, j \in 1..Len(In) :
         /\ input[k].kind = "versioned" /\ Installed(input[k].req.name)
         /\ FileLines[k] = In[k]
         /\ input[j].kind = "blank" /\ In[j] # <<>> /\ FileLines[j] = In[j]

\* C2: an unversioned, URL-free line of a package installed at version V comes
\* out as name, [extras], ==V, ; marker, without any remote query for the line;
\* and every line the tool changes carries the operator == and no other.
C2_InstalledPinned ==
    \A k \in 1..Len(updated_lines) :
        LET r == input[k].req
            o == Requirement(updated_lines[k])
        IN  /\ (input[k].kind = "bare" /\ Installed(r.name)) =>
                  /\ \E out \in Pinned(r, InstalledV) : OutputIs(k, out)
                  /\ \A c \in 1..Len(calls) : ~(calls[c][1] = "remote" /\ calls[c][2] = k)
            /\ updated_lines[k] # In[k] =>
                  /\ o.ok /\ Len(o.specifier) > 2
                  /\ SubSeq(o.specifier, 1, 2) = <<"=", "=">>
                  /\ \A p \in 3..Len(o.specifier) : o.specifier[p] \notin {"=", ">", ","}

\* C2 witness: a line with a marker, its package installed, written pinned.
C2_Witness ==
    /\ Written
    /\ \E k \in 1..Len(In) :
         /\ input[k].kind = "bare" /\ input[k].req.marker # None
         /\ Installed(input[k].req.name)
         /\ FileLines[k] \in Pinned(input[k].req, InstalledV)

\* C3: an unversioned, URL-free line of a package that is not installed, the
\* index answering 200 with info.version = W, comes out as name, [extras], ==W,
\* ; marker.
C3_RemotePinned ==
    \A k \in 1..Len(updated_lines) :
        LET r == input[k].req
        IN  (input[k].kind = "bare" /\ NotInstalled(r.name) /\ <<r.name, "200">> \in pypi) =>
                \E out \in Pinned(r, LatestV) : OutputIs(k, out)

\* C3 witness: a line with extras, its package not installed and on the index,
\* written pinned to the index's version.
C3_Witness ==
    /\ Written
    /\ \E k \in 1..Len(In) :
         /\ input[k].kind = "bare" /\ input[k].req.extras # <<>>
         /\ <<input[k].req.name, "PackageNotFoundError">> \in registry
         /\ <<input[k].req.name, "200">> \in pypi
         /\ FileLines[k] \in Pinned(input[k].req, LatestV)

\* C4: when the remote lookup of an unversioned, uninstalled package fails
\* (status other than 200, transport exception, body that is not JSON, no
\* info.version), the line comes out as it went in and the loop goes on: the
\* line is settled by the step that made the query and the run is not aborted.
C4_RemoteFailureKeepsLine ==
    /\ \A k \in 1..Len(updated_lines) :
         LET r == input[k].req
         IN  (input[k].kind = "bare" /\ NotInstalled(r.name)
                /\ \E o \in RemoteFailures : <<r.name, o>> \in pypi) =>
                 OutputIs(k, In[k])
    /\ \A c \in 1..Len(calls) :
         (calls[c][1] = "remote" /\ calls[c][4] \in RemoteFailures) =>
             /\ Len(updated_lines) >= calls[c][2]
             /\ fault[run] # "line"
             /\ pc = "done" /\ fault[run] = "none" => Len(updated_lines) = Len(In)

\* C4 witness: the index answered without info.version for the first line,
\* which was kept, and a later line was processed after it.
C4_Witness ==
    /\ Len(updated_lines) >= 2
    /\ input[1].kind = "bare"
    /\ \E c \in 1..Len(calls) :
         calls[c][1] = "remote" /\ calls[c][2] = 1 /\ calls[c][4] = "200-no-field"
    /\ updated_lines[1] = In[1]
    /\ input[2].kind = "bare"
    /\ updated_lines[2] = In[2]

\* C5: idempotence.  When two runs in succession both return without a file
\* I/O error, the registry and the index answering the second run as they
\* answered the first, the second run leaves the file as the first left it.
C5_Idempotent ==
    (run = 2 /\ pc = "done" /\ fault[1] = "none" /\ fault[2] = "none") =>
        file = firstResult

\* C5 witness: the second run has read a line the first run pinned to the
\* index's version, marker included, and has written the same file again.
C5_Witness ==
    /\ run = 2 /\ Written
    /\ file = firstResult
    /\ \E k \in 1..Len(In) :
         /\ input[k].kind = "versioned" /\ input[k].req.marker # None
         /\ In[k] \in Pinned(input[k].req, LatestV)

\* The lines a bare input line may come out as.
Resolved(d) ==
    IF d.kind = "bare"
    THEN {d.line} \cup Pinned(d.req, InstalledV) \cup Pinned(d.req, LatestV)
    ELSE {d.line}

\* C6: order preservation.  After a run that read and wrote the file, the file
\* has as many lines as the input had, the empty input included, and its k-th
\* line is the k-th input line kept or pinned.
C6_OrderPreserved ==
    Written =>
        /\ Len(FileLines) = Len(In)
        /\ \A k \in 1..Len(In) : FileLines[k] \in Resolved(input[k])

\* C6, input files of at least one line: what the code does keep.
C6_NonEmptyOrderPreserved ==
    (Written /\ before # <<>>) =>
        /\ Len(FileLines) = Len(In)
        /\ \A k \in 1..Len(In) : FileLines[k] \in Resolved(input[k])

\* C7: an error raised while the lines are read or processed, at whatever
\* line, makes the function return without opening the file for writing: the
\* run is over and the file is what it was.
C7_ReadErrorNoWrite ==
    fault[run] \in {"read", "line"} => (pc = "done" /\ file = before)

\* C7 witness: the read failed after a line had been pinned; the file, which
\* is not empty, is untouched.
C7_Witness ==
    /\ pc = "done" /\ fault[run] = "read"
    /\ Len(updated_lines) >= 1 /\ Len(updated_lines) < Len(In)
    /\ updated_lines[1] # In[1]
    /\ file = before

\* The text of the output sequence: the lines joined by "\n", and a final "\n".
Transformed == join(<<NL>>, updated_lines) \o <<NL>>

IsPrefix(s, u) == Len(s) <= Len(u) /\ s = SubSeq(u, 1, Len(s))

\* C8 as claimed: whenever update_requirements_file has returned, a write
\* error included, the file holds the complete original text or the complete
\* transformed text.
C8_AtomicReplace ==
    pc = "done" =>
        \/ file = before
        \/ Len(updated_lines) = Len(In) /\ file = Transformed

\* C8 as amended: the file is untouched until every line has been read and
\* transformed; a run that returns without a write error leaves the complete
\* transformed text, or the original text after a read error; a run that
\* returns after a write error leaves the original text or a prefix of the
\* transformed text, the empty and the truncated ones included.
C8_ReplaceUnlessWriteError ==
    /\ pc \in {"start", "loop", "local", "remote", "open-w"} => file = before
    /\ pc \in {"open-w", "writing"} => Len(updated_lines) = Len(In)
    /\ pc = "writing" => file = <<>>
    /\ pc = "done" =>
         CASE fault[run] = "none"   -> Len(updated_lines) = Len(In) /\ file = Transformed
           [] fault[run] = "open-w" -> file = before
           [] fault[run] = "write"  -> Len(updated_lines) = Len(In) /\ IsPrefix(file, Transformed)
           [] OTHER                 -> file = before

\* C8 witness: a write error left a text that is neither the original, nor
\* empty, nor the transformed text.
C8_Witness ==
    /\ pc = "done" /\ fault[run] = "write"
    /\ file # before /\ file # <<>> /\ file # Transformed
    /\ IsPrefix(file, Transformed)

Logged(level, what) == \E n \in 1..Len(log) : log[n] = <<level, what>>

\* C9: no exception leaves update_requirements_file: a run ends only by
\* returning, early only when reading failed, never because an exception of a
\* line's parsing or lookups reached the handler of the read block; each
\* failure is logged; a parse or lookup failure never ends the run, which goes
\* through every line unless reading fails; a read failure ends the run with
\* the file untouched.
C9_FailuresCaught ==
    /\ fault[run] \in {"none", "read", "open-w", "write"}
    /\ \A k \in 1..Len(updated_lines) :
         input[k].kind = "unparseable" => Logged("warning", "parse")
    /\ \A c \in 1..Len(calls) :
         /\ (calls[c][1] = "local" /\ calls[c][4] = "Exception") =>
               Logged("error", "local lookup")
         /\ (calls[c][1] = "remote" /\ calls[c][4] = "404") =>
               Logged("warning", "remote status")
         /\ (calls[c][1] = "remote" /\ calls[c][4] \in RemoteFailures \ {"404"}) =>
               Logged("error", "remote lookup")
         /\ Len(updated_lines) >= calls[c][2] \/ (pc = "remote" /\ i + 1 = calls[c][2])
    /\ fault[run] = "read" => Logged("error", "processing") /\ file = before
    /\ fault[run] \in {"open-w", "write"} => Logged("error", "writing")
    /\ (pc = "done" /\ fault[run] # "read") => Len(updated_lines) = Len(In)

\* C9 witness: a run that met an unparseable line, a local lookup error and a
\* transport error of the remote lookup, and still wrote every line.
C9_Witness ==
    /\ Written
    /\ Len(updated_lines) = 2
    /\ \E k \in 1..Len(In) : input[k].kind = "unparseable"
    /\ \E c \in 1..Len(calls) : calls[c][1] = "local" /\ calls[c][4] = "Exception"
    /\ \E c \in 1..Len(calls) : calls[c][1] = "remote" /\ calls[c][4] = "ConnectionError"

\* C10: the index is queried for a line only after the registry has reported
\* the line's package as not installed, and only for an unversioned, URL-free
\* requirement; no line has more than one local and one remote lookup.
C10_LookupOrder ==
    /\ \A c \in 1..Len(calls) :
         calls[c][1] = "remote" =>
             /\ input[calls[c][2]].kind = "bare"
             /\ \E b \in 1..(c - 1) :
                  /\ calls[b][1] = "local" /\ calls[b][2] = calls[c][2]
                  /\ calls[b][3] = calls[c][3]
                  /\ calls[b][4] # "version"
    /\ \A c \in 1..Len(calls) :
         input[calls[c][2]].kind \in {"versioned", "bare"}
    /\ \A b, c \in 1..Len(calls) :
         (b # c /\ calls[b][1] = calls[c][1]) => calls[b][2] # calls[c][2]

\* C10 witness: a run that queried the index for an uninstalled bare line and
\* only the registry for a versioned line of an uninstalled package.
C10_Witness ==
    /\ pc = "done"
    /\ \E c \in 1..Len(calls) : calls[c][1] = "remote"
    /\ \E k \in 1..Len(updated_lines) :
         /\ input[k].kind = "versioned"
         /\ \E c \in 1..Len(calls) :
              calls[c] = <<"local", k, input[k].req.name, "PackageNotFoundError">>
         /\ \A c \in 1..Len(calls) : ~(calls[c][1] = "remote" /\ calls[c][2] = k)

====
